---- MODULE Spec2Model ----
(***************************************************************************)
(* Model of the Hopper actor (node/src/hopper/hopper.rs) and of the two    *)
(* services it owns.  The orchestrator (Hopper::new and the three          *)
(* Handler impls) is translated from hopper.rs.  ConsumingService,         *)
(* RoutingService and CryptDE live in files that are not part of the       *)
(* sources at hand; they are modelled from sections 3, 4.1, 4.2 and 6 of   *)
(* the specification.                                                      *)
(*                                                                         *)
(* Nested encryption is written flat: a ciphertext is the sequence of its  *)
(* layers, outermost first.  Layer i carries the key it was encrypted for  *)
(* and its segment; everything behind it in the sequence is the            *)
(* "inner-encrypted blob" of that segment.  Nothing reads a layer before   *)
(* the layers in front of it have been removed by Decode.                  *)
(***************************************************************************)
EXTENDS Integers, Sequences, FiniteSets, TLC

VARIABLES
    hopper,               \* the Hopper struct of the node under test
    panicked,             \* "" while the actor runs, else the panic message
    mailbox_capacity,     \* capacity of the actor's mailbox
    last,                 \* what the most recent handler invocation did
    net,                  \* network: the Hopper struct of every node
    net_panicked,         \* network: panic message of every node's actor
    journey,              \* network: one package on its way along its route
    listener_pc,          \* client listener thread: "new", "listening", "stopped"
    rx_alive,             \* whether the Receiver of message_body_tx still exists
    message_body_channel, \* everything put on the channel so far
    iterations,           \* one record per pass of the listener's loop
    launch                \* the call of LauncherReal::launch and what it did

vars == <<hopper, panicked, mailbox_capacity, last,
          net, net_panicked, journey,
          listener_pc, rx_alive, message_body_channel, iterations, launch>>

hopper_vars == <<hopper, panicked, mailbox_capacity, last>>

net_vars == <<net, net_panicked, journey>>

listener_vars == <<listener_pc, rx_alive, message_body_channel, iterations>>

launcher_vars == <<launch>>

----------------------------------------------------------------------------
(* Bounds *)

MaxRouteLen == 2

MaxPayloadLen == 2

----------------------------------------------------------------------------
(* Data model (specification section 3) *)

Nodes == {"A", "B"}

BadKey == ""

Keys == Nodes \cup {BadKey}

NoKey == "none"

Components == {"ProxyClient", "ProxyServer", "Neighborhood"}

NoComponent == "none"

Bytes == {0}

Payloads == UNION {[1..n -> Bytes] : n \in 1..MaxPayloadLen}

RouteSegments == UNION {[1..n -> Keys] : n \in 1..MaxRouteLen}

IncipientCoresPackages ==
    {[route |-> r, component |-> c, payload |-> p,
      payload_destination_key |-> r[Len(r)]] :
        r \in RouteSegments, c \in Components, p \in Payloads}

None == [some |-> FALSE]

Some(x) == [some |-> TRUE, val |-> x]

----------------------------------------------------------------------------
(* Crypto capability (specification section 6) *)

EncryptionError == [ok |-> FALSE, blob |-> <<>>]

Encode(target_public_key, segment, inner) ==
    IF target_public_key = BadKey
    THEN EncryptionError
    ELSE [ok |-> TRUE,
          blob |-> <<[target |-> target_public_key, intact |-> TRUE,
                      segment |-> segment]>> \o inner]

DecryptionError == [ok |-> FALSE, segment |-> [kind |-> "none"], rest |-> <<>>]

Decode(self_public_key, blob) ==
    IF blob = <<>> \/ Head(blob).target # self_public_key \/ ~Head(blob).intact
    THEN DecryptionError
    ELSE [ok |-> TRUE, segment |-> Head(blob).segment, rest |-> Tail(blob)]

----------------------------------------------------------------------------
(* Wire form of a LiveCoresPackage (specification sections 3 and 6) *)

LiveCoresPackage(layers) == [layers |-> layers]

Serialize(lcp) == [parses |-> TRUE, layers |-> lcp.layers]

Garbage == [parses |-> FALSE, layers |-> <<>>]

Deserialize(data) ==
    IF data.parses
    THEN [ok |-> TRUE, lcp |-> LiveCoresPackage(data.layers)]
    ELSE [ok |-> FALSE, lcp |-> LiveCoresPackage(<<>>)]

RemainingRoute(lcp) == Len(lcp.layers)

RECURSIVE CipherLen(_)
CipherLen(blob) ==
    IF blob = <<>> THEN 0
    ELSE 1 + Len(Head(blob).segment.payload) + CipherLen(Tail(blob))

FinalSegment(component, payload) ==
    [kind |-> "final", next |-> NoKey, component |-> component,
     payload |-> payload]

RelaySegment(next) ==
    [kind |-> "relay", next |-> next, component |-> NoComponent,
     payload |-> <<>>]

----------------------------------------------------------------------------
(* Effects of one handler invocation on the actor's collaborators *)

NoEffects ==
    [panic |-> "", result |-> "none", consume_calls |-> <<>>,
     route_calls |-> <<>>, sends |-> <<>>, deliveries |-> <<>>,
     reports |-> <<>>, new_consuming |-> 0, new_routing |-> 0]

Merge(fx, more) ==
    [fx EXCEPT !.result = more.result,
               !.sends = fx.sends \o more.sends,
               !.deliveries = fx.deliveries \o more.deliveries,
               !.reports = fx.reports \o more.reports]

----------------------------------------------------------------------------
(* Outbound encryption service (specification section 4.1) *)

ConsumingServiceNew(cryptde, is_bootstrap_node, to_dispatcher, to_hopper) ==
    [cryptde |-> cryptde, is_bootstrap_node |-> is_bootstrap_node,
     to_dispatcher |-> to_dispatcher, to_hopper |-> to_hopper]

RECURSIVE EncryptHops(_, _, _)
EncryptHops(icp, i, inner) ==
    IF i = 0 THEN [ok |-> TRUE, blob |-> inner]
    ELSE LET segment == IF i = Len(icp.route)
                        THEN FinalSegment(icp.component, icp.payload)
                        ELSE RelaySegment(icp.route[i + 1])
             e == Encode(icp.route[i], segment, inner)
         IN IF e.ok THEN EncryptHops(icp, i - 1, e.blob) ELSE EncryptionError

ConsumingServiceConsume(service, icp) ==
    LET e == EncryptHops(icp, Len(icp.route), <<>>)
    IN IF e.ok
       THEN [result |-> "Sent",
             sends |-> <<[via |-> service.to_dispatcher, to |-> icp.route[1],
                          data |-> Serialize(LiveCoresPackage(e.blob))]>>,
             deliveries |-> <<>>, reports |-> <<>>]
       ELSE [result |-> "RouteEncryptionError", sends |-> <<>>,
             deliveries |-> <<>>, reports |-> <<>>]

----------------------------------------------------------------------------
(* Inbound routing service (specification section 4.2) *)

RoutingServiceNew(cryptde, is_bootstrap_node, proxy_client, proxy_server, neighborhood, to_dispatcher, to_accountant, per_routing_service, per_routing_byte) ==
    [cryptde |-> cryptde, is_bootstrap_node |-> is_bootstrap_node,
     proxy_client |-> proxy_client, proxy_server |-> proxy_server,
     neighborhood |-> neighborhood, to_dispatcher |-> to_dispatcher,
     to_accountant |-> to_accountant,
     per_routing_service |-> per_routing_service,
     per_routing_byte |-> per_routing_byte]

Dropped(error) ==
    [result |-> error, sends |-> <<>>, deliveries |-> <<>>, reports |-> <<>>]

ComponentRecipient(service, component) ==
    CASE component = "ProxyClient" -> service.proxy_client
      [] component = "ProxyServer" -> service.proxy_server
      [] component = "Neighborhood" -> service.neighborhood

RoutingCost(service, forwarded) ==
    service.per_routing_service + service.per_routing_byte * CipherLen(forwarded)

DeliverLocally(service, segment) ==
    IF segment.kind = "final" /\ segment.component \in Components
       /\ segment.payload # <<>>
    THEN [result |-> "Delivered", sends |-> <<>>,
          deliveries |-> <<[to |-> ComponentRecipient(service, segment.component),
                            payload |-> segment.payload]>>,
          reports |-> <<>>]
    ELSE Dropped("MalformedPackageError")

Relay(service, segment, rest) ==
    IF segment.kind = "relay"
    THEN [result |-> "Forwarded",
          sends |-> <<[via |-> service.to_dispatcher, to |-> segment.next,
                       data |-> Serialize(LiveCoresPackage(rest))]>>,
          deliveries |-> <<>>,
          reports |-> <<[to |-> service.to_accountant,
                         amount |-> RoutingCost(service, rest)]>>]
    ELSE Dropped("MalformedPackageError")

RoutingServiceRoute_NoStrip(service, ibcd) ==
    LET parsed == Deserialize(ibcd.data)
        d == Decode(service.cryptde, parsed.lcp.layers)
    IN IF ~parsed.ok THEN Dropped("MalformedPackageError")
       ELSE IF ~d.ok THEN Dropped("DecryptionError")
       ELSE IF d.rest = <<>> THEN DeliverLocally(service, d.segment)
       ELSE Relay(service, d.segment, parsed.lcp.layers)

RoutingServiceRoute(service, ibcd) ==
    LET parsed == Deserialize(ibcd.data)
        d == Decode(service.cryptde, parsed.lcp.layers)
    IN IF ~parsed.ok THEN Dropped("MalformedPackageError")
       ELSE IF ~d.ok THEN Dropped("DecryptionError")
       ELSE IF d.rest = <<>> THEN DeliverLocally(service, d.segment)
       ELSE Relay(service, d.segment, d.rest)

----------------------------------------------------------------------------
(* Messages the Hopper actor receives *)

Handle(owner, sub) == [owner |-> owner, sub |-> sub]

PeerActors(owner) ==
    [proxy_server |-> Handle(owner, "proxy_server"),
     dispatcher |-> [from_dispatcher_client |->
                         Handle(owner, "dispatcher.from_dispatcher_client")],
     hopper |-> [from_dispatcher |-> Handle(owner, "hopper.from_dispatcher")],
     proxy_client |-> Handle(owner, "proxy_client"),
     neighborhood |-> Handle(owner, "neighborhood"),
     accountant |-> [report_routing_service_provided |->
                         Handle(owner, "accountant.report_routing_service_provided")]]

BindMessages == {[peer_actors |-> PeerActors(n)] : n \in Nodes}

GoodIncipientCoresPackages ==
    {icp \in IncipientCoresPackages : \A i \in 1..Len(icp.route) : icp.route[i] # BadKey}

WireBlobs ==
    {SubSeq(b, k, Len(b)) :
        k \in 1..MaxRouteLen,
        b \in {EncryptHops(icp, Len(icp.route), <<>>).blob :
                  icp \in GoodIncipientCoresPackages}}

Corrupt(blob) == <<[Head(blob) EXCEPT !.intact = FALSE]>> \o Tail(blob)

Unparseable(blob) ==
    <<[Head(blob) EXCEPT !.segment.payload = <<>>]>> \o Tail(blob)

InboundClientDatas ==
    {[data |-> d] :
        d \in {Serialize(LiveCoresPackage(b)) : b \in WireBlobs \ {<<>>}}
              \cup {Serialize(LiveCoresPackage(Corrupt(b))) : b \in WireBlobs \ {<<>>}}
              \cup {Serialize(LiveCoresPackage(Unparseable(b))) :
                        b \in {w \in WireBlobs : Len(w) = 1}}
              \cup {Garbage}}

\* is_bootstrap_node is false, as in both tests of hopper.rs: the handlers
\* only pass it on to the services, and the specification gives the services
\* no behaviour that depends on it.
HopperConfig(cryptde, per_routing_service, per_routing_byte) ==
    [cryptde |-> cryptde, is_bootstrap_node |-> FALSE,
     per_routing_service |-> per_routing_service,
     per_routing_byte |-> per_routing_byte]

HopperConfigs == {HopperConfig("A", 100, 200), HopperConfig("A", 200, 100)}

----------------------------------------------------------------------------
(* The orchestrator: node/src/hopper/hopper.rs *)

HopperNew(config) ==
    [cryptde |-> config.cryptde,
     is_bootstrap_node |-> config.is_bootstrap_node,
     consuming_service |-> None,
     routing_service |-> None,
     per_routing_service |-> config.per_routing_service,
     per_routing_byte |-> config.per_routing_byte]

BindConsumingService(h, msg) ==
    Some(ConsumingServiceNew(
        h.cryptde,
        h.is_bootstrap_node,
        msg.peer_actors.dispatcher.from_dispatcher_client,
        msg.peer_actors.hopper.from_dispatcher))

BindRoutingService_SwappedRates(h, msg) ==
    Some(RoutingServiceNew(
        h.cryptde,
        h.is_bootstrap_node,
        msg.peer_actors.proxy_client,
        msg.peer_actors.proxy_server,
        msg.peer_actors.neighborhood,
        msg.peer_actors.dispatcher.from_dispatcher_client,
        msg.peer_actors.accountant.report_routing_service_provided,
        h.per_routing_byte,
        h.per_routing_service))

BindRoutingService_SwappedProxies(h, msg) ==
    Some(RoutingServiceNew(
        h.cryptde,
        h.is_bootstrap_node,
        msg.peer_actors.proxy_server,
        msg.peer_actors.proxy_client,
        msg.peer_actors.neighborhood,
        msg.peer_actors.dispatcher.from_dispatcher_client,
        msg.peer_actors.accountant.report_routing_service_provided,
        h.per_routing_service,
        h.per_routing_byte))

BindRoutingService(h, msg) ==
    Some(RoutingServiceNew(
        h.cryptde,
        h.is_bootstrap_node,
        msg.peer_actors.proxy_client,
        msg.peer_actors.proxy_server,
        msg.peer_actors.neighborhood,
        msg.peer_actors.dispatcher.from_dispatcher_client,
        msg.peer_actors.accountant.report_routing_service_provided,
        h.per_routing_service,
        h.per_routing_byte))

HandleBindMessage_OnlyConsuming(h, msg) ==
    [hopper |-> [h EXCEPT !.consuming_service = BindConsumingService(h, msg)],
     mailbox |-> "NODE_MAILBOX_CAPACITY",
     fx |-> [NoEffects EXCEPT !.result = "Bound", !.new_consuming = 1]]

HandleBindMessage(h, msg) ==
    [hopper |-> [h EXCEPT !.consuming_service = BindConsumingService(h, msg),
                          !.routing_service = BindRoutingService(h, msg)],
     mailbox |-> "NODE_MAILBOX_CAPACITY",
     fx |-> [NoEffects EXCEPT !.result = "Bound", !.new_consuming = 1,
                              !.new_routing = 1]]

Panic(h, message) ==
    [hopper |-> h, fx |-> [NoEffects EXCEPT !.panic = message, !.result = "panic"]]

CallConsume_Twice(service, msg) ==
    LET once == Merge([NoEffects EXCEPT !.consume_calls = <<msg>>],
                      ConsumingServiceConsume(service, msg))
    IN Merge([once EXCEPT !.consume_calls = @ \o <<msg>>],
             ConsumingServiceConsume(service, msg))

CallConsume(service, msg) ==
    Merge([NoEffects EXCEPT !.consume_calls = <<msg>>],
          ConsumingServiceConsume(service, msg))

CallRoute(service, msg) ==
    Merge([NoEffects EXCEPT !.route_calls = <<msg>>],
          RoutingServiceRoute(service, msg))

HandleIncipientCoresPackage_IfLet(h, msg) ==
    IF ~h.consuming_service.some
    THEN [hopper |-> h, fx |-> NoEffects]
    ELSE [hopper |-> h, fx |-> CallConsume(h.consuming_service.val, msg)]

HandleIncipientCoresPackage(h, msg) ==
    IF ~h.consuming_service.some
    THEN Panic(h, "Hopper unbound: no ConsumingService")
    ELSE [hopper |-> h, fx |-> CallConsume(h.consuming_service.val, msg)]

HandleInboundClientData_Take(h, msg) ==
    IF ~h.routing_service.some
    THEN Panic(h, "Hopper unbound: no RoutingService")
    ELSE [hopper |-> [h EXCEPT !.routing_service = None],
          fx |-> CallRoute(h.routing_service.val, msg)]

HandleInboundClientData_NoDispatch(h, msg) ==
    IF ~h.routing_service.some
    THEN Panic(h, "Hopper unbound: no RoutingService")
    ELSE [hopper |-> h, fx |-> NoEffects]

HandleInboundClientData_ExpectOk(h, msg) ==
    IF ~h.routing_service.some
    THEN Panic(h, "Hopper unbound: no RoutingService")
    ELSE LET fx == CallRoute(h.routing_service.val, msg)
         IN IF fx.result \in {"DecryptionError", "MalformedPackageError"}
            THEN [hopper |-> h, fx |-> [fx EXCEPT !.panic = fx.result]]
            ELSE [hopper |-> h, fx |-> fx]

HandleInboundClientData(h, msg) ==
    IF ~h.routing_service.some
    THEN Panic(h, "Hopper unbound: no RoutingService")
    ELSE [hopper |-> h, fx |-> CallRoute(h.routing_service.val, msg)]

----------------------------------------------------------------------------
(* One Hopper actor and the messages put in its mailbox *)

Bound(h) == h.consuming_service.some /\ h.routing_service.some

Unbound(h) == ~h.consuming_service.some /\ ~h.routing_service.some

Record(kind, msg, h, fx) ==
    [kind |-> kind, msg |-> msg,
     had_consuming |-> h.consuming_service.some,
     had_routing |-> h.routing_service.some,
     before |-> h, fx |-> fx]

NoLaunchSuccess == [new_process_id |-> 0, redirect_ui_port |-> 0]

NotLaunched ==
    [called |-> FALSE, params |-> <<>>, free_port |-> 0, exec_calls |-> <<>>,
     exec_result |-> [ok |-> FALSE, pid |-> 0, error |-> ""],
     result |-> [ok |-> FALSE, some |-> FALSE, success |-> NoLaunchSuccess,
                 error |-> ""]]

NoJourney ==
    [stage |-> "idle", icp |-> <<>>, origin |-> NoKey, at |-> NoKey,
     hops |-> 0, received |-> Garbage, in_flight |-> <<>>,
     delivered |-> <<>>, fx |-> NoEffects]

Init ==
    /\ \E config \in HopperConfigs : hopper = HopperNew(config)
    /\ panicked = ""
    /\ mailbox_capacity = "default"
    /\ last = Record("none", <<>>, hopper, NoEffects)
    /\ net = [n \in Nodes |-> HopperNew(HopperConfig(n, 100, 200))]
    /\ net_panicked = [n \in Nodes |-> ""]
    /\ journey = NoJourney
    /\ listener_pc = "new"
    /\ rx_alive = TRUE
    /\ message_body_channel = <<>>
    /\ iterations = <<>>
    /\ launch = NotLaunched

ReceiveBindMessage(msg) ==
    /\ panicked = ""
    /\ LET r == HandleBindMessage(hopper, msg)
       IN /\ hopper' = r.hopper
          /\ mailbox_capacity' = r.mailbox
          /\ last' = Record("BindMessage", msg, hopper, r.fx)
    /\ UNCHANGED <<panicked, net_vars, listener_vars, launcher_vars>>

ReceiveIncipientCoresPackage(msg) ==
    /\ panicked = ""
    /\ LET r == HandleIncipientCoresPackage(hopper, msg)
       IN /\ hopper' = r.hopper
          /\ panicked' = r.fx.panic
          /\ last' = Record("IncipientCoresPackage", msg, hopper, r.fx)
    /\ UNCHANGED <<mailbox_capacity, net_vars, listener_vars, launcher_vars>>

ReceiveInboundClientData(msg) ==
    /\ panicked = ""
    /\ LET r == HandleInboundClientData(hopper, msg)
       IN /\ hopper' = r.hopper
          /\ panicked' = r.fx.panic
          /\ last' = Record("InboundClientData", msg, hopper, r.fx)
    /\ UNCHANGED <<mailbox_capacity, net_vars, listener_vars, launcher_vars>>

Next ==
    \/ \E msg \in BindMessages : ReceiveBindMessage(msg)
    \/ \E msg \in IncipientCoresPackages : ReceiveIncipientCoresPackage(msg)
    \/ \E msg \in InboundClientDatas : ReceiveInboundClientData(msg)

Spec == Init /\ [][Next]_vars

----------------------------------------------------------------------------
(* A network of Hopper actors, one per node, and one package travelling   *)
(* through it.  The transport hands every send request to the Hopper of   *)
(* the node it is addressed to, as InboundClientData.                      *)

NetBind(n) ==
    /\ net_panicked[n] = ""
    /\ LET r == HandleBindMessage(net[n], [peer_actors |-> PeerActors(n)])
       IN net' = [net EXCEPT ![n] = r.hopper]
    /\ UNCHANGED <<net_panicked, journey, hopper_vars, listener_vars,
                   launcher_vars>>

NetOriginate(n, icp) ==
    /\ journey.stage = "idle"
    /\ net_panicked[n] = ""
    /\ LET r == HandleIncipientCoresPackage(net[n], icp)
       IN /\ net' = [net EXCEPT ![n] = r.hopper]
          /\ net_panicked' = [net_panicked EXCEPT ![n] = r.fx.panic]
          /\ journey' = [NoJourney EXCEPT
                            !.stage = IF r.fx.panic # "" THEN "crashed"
                                      ELSE IF r.fx.sends # <<>> THEN "flying"
                                      ELSE "ended",
                            !.icp = icp, !.origin = n, !.at = n,
                            !.in_flight = r.fx.sends, !.fx = r.fx]
    /\ UNCHANGED <<hopper_vars, listener_vars, launcher_vars>>

NetDeliver(i) ==
    /\ journey.stage = "flying"
    /\ i \in 1..Len(journey.in_flight)
    /\ LET send == journey.in_flight[i]
           n == send.to
       IN /\ n \in Nodes
          /\ net_panicked[n] = ""
          /\ LET r == HandleInboundClientData(net[n], [data |-> send.data])
             IN /\ net' = [net EXCEPT ![n] = r.hopper]
                /\ net_panicked' = [net_panicked EXCEPT ![n] = r.fx.panic]
                /\ journey' = [journey EXCEPT
                        !.stage = IF r.fx.panic # "" THEN "crashed"
                                  ELSE IF r.fx.sends # <<>> THEN "flying"
                                  ELSE "ended",
                        !.at = n,
                        !.hops = IF r.fx.panic # "" THEN @ ELSE @ + 1,
                        !.received = send.data,
                        !.in_flight = r.fx.sends,
                        !.delivered = @ \o [k \in 1..Len(r.fx.deliveries) |->
                                              [at |-> n,
                                               to |-> r.fx.deliveries[k].to,
                                               payload |-> r.fx.deliveries[k].payload]],
                        !.fx = r.fx]
    /\ UNCHANGED <<hopper_vars, listener_vars, launcher_vars>>

NetNext ==
    \/ \E n \in Nodes : NetBind(n)
    \/ \E n \in Nodes, icp \in IncipientCoresPackages : NetOriginate(n, icp)
    \/ \E i \in 1..MaxRouteLen : NetDeliver(i)

NetSpec == Init /\ [][NetNext]_vars

----------------------------------------------------------------------------
(* Properties of the orchestrator *)

WasUnbound == ~last.had_consuming /\ ~last.had_routing

WasBound == last.had_consuming /\ last.had_routing

NothingInvoked(fx) ==
    /\ fx.consume_calls = <<>> /\ fx.route_calls = <<>>
    /\ fx.sends = <<>> /\ fx.deliveries = <<>> /\ fx.reports = <<>>

\* C1: while the orchestrator is Unbound, an IncipientCoresPackage aborts
\* with "Hopper unbound: no ConsumingService" and an InboundClientData with
\* "Hopper unbound: no RoutingService", no service is invoked, and a
\* BindMessage is the only message kind handled without abort.
C1_UnboundAborts ==
    (last.kind # "none" /\ WasUnbound) =>
        /\ last.kind = "IncipientCoresPackage" =>
               /\ last.fx.panic = "Hopper unbound: no ConsumingService"
               /\ NothingInvoked(last.fx)
        /\ last.kind = "InboundClientData" =>
               /\ last.fx.panic = "Hopper unbound: no RoutingService"
               /\ NothingInvoked(last.fx)
        /\ (last.fx.panic = "") <=> (last.kind = "BindMessage")
        /\ panicked = last.fx.panic

C1_Witness ==
    /\ last.kind = "IncipientCoresPackage" /\ WasUnbound
    /\ panicked = "Hopper unbound: no ConsumingService"

\* C2: a BindMessage handled by an orchestrator that is already Bound
\* aborts (panics) instead of completing normally.
C2_SecondBindIsFatal ==
    (last.kind = "BindMessage" /\ WasBound) => last.fx.panic # ""

\* C3: once the first BindMessage has been handled, no later message of any
\* kind constructs a service again or replaces a service the orchestrator
\* holds.
C3_ServicesConstructedOnce ==
    WasBound =>
        /\ last.fx.new_consuming = 0 /\ last.fx.new_routing = 0
        /\ hopper.consuming_service = last.before.consuming_service
        /\ hopper.routing_service = last.before.routing_service

\* C4: in the Bound state an IncipientCoresPackage results in exactly one
\* call of consume, with that package, and no call of route; an
\* InboundClientData results in exactly one call of route, with that data,
\* and no call of consume.  The call is made inside the handler invocation
\* of its message, so calls happen in the order the messages are handled.
C4_BoundDispatch ==
    WasBound =>
        /\ last.kind = "IncipientCoresPackage" =>
               last.fx.consume_calls = <<last.msg>> /\ last.fx.route_calls = <<>>
        /\ last.kind = "InboundClientData" =>
               last.fx.route_calls = <<last.msg>> /\ last.fx.consume_calls = <<>>
        /\ last.kind = "BindMessage" =>
               last.fx.route_calls = <<>> /\ last.fx.consume_calls = <<>>

C4_Witness ==
    /\ WasBound /\ last.kind = "InboundClientData"
    /\ last.fx.route_calls = <<last.msg>>
    /\ last.fx.result = "Forwarded"

\* C5: Bound is terminal: a handler invocation that starts in Bound ends in
\* Bound with both services present, and raises no "Hopper unbound" abort.
C5_BoundIsTerminal ==
    WasBound =>
        /\ Bound(hopper)
        /\ last.fx.panic = ""
        /\ panicked = ""

C5_Witness ==
    /\ WasBound /\ last.kind = "InboundClientData"
    /\ last.fx.result = "DecryptionError"
    /\ Bound(hopper)

----------------------------------------------------------------------------
(* Properties of the services, as the orchestrator wires and calls them *)

GoodRoute(icp) == \A i \in 1..Len(icp.route) : icp.route[i] # BadKey

ExpectedRecipient(node, component) ==
    CASE component = "ProxyClient" -> PeerActors(node).proxy_client
      [] component = "ProxyServer" -> PeerActors(node).proxy_server
      [] component = "Neighborhood" -> PeerActors(node).neighborhood

\* C6: for every route of n >= 1 hops and every payload, one run of the
\* outbound service at the origin and then n runs of the inbound service,
\* one at each hop in route order, deliver exactly the original payload to
\* exactly the original terminal Component at the last hop, and deliver
\* nothing locally at an earlier hop.
C6_RoundTrip ==
    (journey.stage # "idle" /\ journey.fx.panic = "" /\ GoodRoute(journey.icp)) =>
        LET route == journey.icp.route
            n == Len(route)
        IN /\ journey.hops <= n
           /\ journey.hops >= 1 => journey.at = route[journey.hops]
           /\ journey.hops < n =>
                 /\ journey.delivered = <<>>
                 /\ Len(journey.in_flight) = 1
                 /\ journey.in_flight[1].to = route[journey.hops + 1]
           /\ journey.hops = n =>
                 /\ journey.in_flight = <<>>
                 /\ journey.delivered =
                        <<[at |-> route[n],
                           to |-> ExpectedRecipient(route[n], journey.icp.component),
                           payload |-> journey.icp.payload]>>

C6_Witness ==
    /\ journey.stage = "ended"
    /\ Len(journey.icp.route) = MaxRouteLen
    /\ journey.hops = MaxRouteLen
    /\ journey.icp.route[1] # journey.icp.route[MaxRouteLen]
    /\ Len(journey.delivered) = 1
    /\ journey.icp.component = "ProxyServer"

InboundRan == WasBound /\ last.kind = "InboundClientData"

Outer == Head(last.msg.data.layers)

Addressed ==
    /\ InboundRan /\ last.msg.data.parses /\ last.msg.data.layers # <<>>
    /\ Outer.target = hopper.cryptde /\ Outer.intact

NonFinalRelayStep ==
    Addressed /\ Len(last.msg.data.layers) > 1 /\ Outer.segment.kind = "relay"

FinalDeliveryStep ==
    /\ Addressed /\ Len(last.msg.data.layers) = 1
    /\ Outer.segment.kind = "final" /\ Outer.segment.payload # <<>>

AccountantHandles ==
    {PeerActors(n).accountant.report_routing_service_provided : n \in Nodes}

\* C7: a non-final relay step sends the accounting collaborator exactly one
\* report, of amount per_routing_service + per_routing_byte *
\* len(forwarded ciphertext) with the two rates of the HopperConfig; a
\* final-hop local delivery sends it no report.
C7_RelayCost ==
    /\ NonFinalRelayStep =>
          /\ Len(last.fx.sends) = 1
          /\ Len(last.fx.reports) = 1
          /\ last.fx.reports[1].to \in AccountantHandles
          /\ last.fx.reports[1].amount =
                 hopper.per_routing_service
                 + hopper.per_routing_byte * CipherLen(last.fx.sends[1].data.layers)
    /\ FinalDeliveryStep =>
          /\ last.fx.result = "Delivered"
          /\ last.fx.reports = <<>>

C7_Witness ==
    /\ NonFinalRelayStep
    /\ hopper.per_routing_service = 100
    /\ Len(last.fx.reports) = 1
    /\ last.fx.reports[1].amount = 100 + 200 * MaxPayloadLen + 200

NotForThisNode ==
    /\ InboundRan /\ last.msg.data.parses /\ last.msg.data.layers # <<>>
    /\ (Outer.target # hopper.cryptde \/ ~Outer.intact)

\* C8: a package whose outer layer is not addressed to this node's key, or
\* is corrupted, ends as a DecryptionError drop: nothing is delivered to a
\* local Component, nothing is sent to the transport (so no forward and no
\* response), no relay cost is reported, and the orchestrator stays Bound
\* and running.
C8_DecryptionErrorDrop ==
    NotForThisNode =>
        /\ last.fx.result = "DecryptionError"
        /\ last.fx.deliveries = <<>>
        /\ last.fx.sends = <<>>
        /\ last.fx.reports = <<>>
        /\ last.fx.panic = ""
        /\ panicked = ""
        /\ Bound(hopper)

C8_Witness ==
    /\ NotForThisNode
    /\ Outer.target = "B" /\ Outer.intact
    /\ last.fx.result = "DecryptionError"

\* C9: one call of the outbound service with one IncipientCoresPackage
\* emits at most one transport send request: exactly one, addressed to the
\* first hop of the route, when every hop encrypts, and none on a
\* RouteEncryptionError; the call is not repeated.
C9_OneSendPerCall ==
    (WasBound /\ last.kind = "IncipientCoresPackage") =>
        /\ Len(last.fx.consume_calls) = 1
        /\ Len(last.fx.sends) <= 1
        /\ GoodRoute(last.msg) =>
              /\ last.fx.result = "Sent"
              /\ Len(last.fx.sends) = 1
              /\ last.fx.sends[1].to = last.msg.route[1]
        /\ ~GoodRoute(last.msg) =>
              /\ last.fx.result = "RouteEncryptionError"
              /\ last.fx.sends = <<>>

C9_Witness ==
    /\ WasBound /\ last.kind = "IncipientCoresPackage"
    /\ Len(last.msg.route) = MaxRouteLen
    /\ last.msg.route[1] = "B"
    /\ Len(last.fx.sends) = 1

\* C10: the package a relay forwards has a remaining route exactly one hop
\* shorter than the package it received.
C10_RouteShrinksByOne ==
    (journey.stage = "flying" /\ journey.hops >= 1) =>
        \A k \in 1..Len(journey.in_flight) :
            RemainingRoute(Deserialize(journey.in_flight[k].data).lcp)
                = RemainingRoute(Deserialize(journey.received).lcp) - 1

C10_Witness ==
    /\ journey.stage = "flying" /\ journey.hops >= 1
    /\ Len(journey.in_flight) = 1
    /\ RemainingRoute(Deserialize(journey.received).lcp) = MaxRouteLen

\* C17: in every reachable state of the orchestrator the two services are
\* both absent (Unbound) or both present (Bound); after no sequence of
\* BindMessage, IncipientCoresPackage and InboundClientData is exactly one of
\* consuming_service and routing_service constructed.
C17_BothOrNeither == Bound(hopper) \/ Unbound(hopper)

C17_Witness ==
    /\ Bound(hopper)
    /\ last.kind = "IncipientCoresPackage"
    /\ last.before.consuming_service.val.to_dispatcher.owner = "B"

----------------------------------------------------------------------------
(* The client listener thread:                                            *)
(* masq/src/communications/client_listener_thread.rs                      *)

MaxReceived == 3

MessageBodies ==
    {[opcode |-> "shutdown", context_id |-> "1"],
     [opcode |-> "setup", context_id |-> "2"]}

Marshal(body) == <<"opcode", body.opcode, "contextId", body.context_id>>

Unmarshal(string) ==
    IF /\ Len(string) = 4
       /\ string[1] = "opcode"
       /\ string[3] = "contextId"
    THEN [ok |-> TRUE, body |-> [opcode |-> string[2], context_id |-> string[4]]]
    ELSE [ok |-> FALSE, body |-> [opcode |-> "", context_id |-> ""]]

Strings ==
    {Marshal(body) : body \in MessageBodies}
        \cup {<<"booga">>, <<"opcode", "shutdown">>}

RecvResults ==
    {[ok |-> TRUE, kind |-> "Text", string |-> string] : string \in Strings}
        \cup {[ok |-> TRUE, kind |-> kind, string |-> <<>>] :
                 kind \in {"Close", "Binary", "Ping"}}
        \cup {[ok |-> FALSE, kind |-> "error", string |-> <<>>]}

OkBody(body) == [ok |-> TRUE, body |-> body, error |-> ""]

ErrListener(error) ==
    [ok |-> FALSE, body |-> [opcode |-> "", context_id |-> ""], error |-> error]

is_fatal(error) ==
    CASE error = "Closed" -> TRUE
      [] error = "Broken" -> TRUE
      [] error = "UnexpectedPacket" -> FALSE

\* Sender::send fails, and hands the item back, once the Receiver is gone.
Send(alive, item) ==
    [ok |-> alive, put |-> IF alive THEN <<item>> ELSE <<>>]

OnText_BreakAfterSend(string, alive) ==
    LET u == Unmarshal(string)
    IN IF u.ok
       THEN [put |-> Send(alive, OkBody(u.body)).put, continue |-> FALSE]
       ELSE LET sent == Send(alive, ErrListener("UnexpectedPacket"))
            IN [put |-> sent.put, continue |-> sent.ok]

OnText(string, alive) ==
    LET u == Unmarshal(string)
    IN IF u.ok
       THEN LET sent == Send(alive, OkBody(u.body))
            IN [put |-> sent.put, continue |-> sent.ok]
       ELSE LET sent == Send(alive, ErrListener("UnexpectedPacket"))
            IN [put |-> sent.put, continue |-> sent.ok]

OnClose_NoBreak(alive) ==
    [put |-> Send(alive, ErrListener("Closed")).put, continue |-> TRUE]

OnClose(alive) ==
    [put |-> Send(alive, ErrListener("Closed")).put, continue |-> FALSE]

OnOther_Fatal(alive) ==
    [put |-> Send(alive, ErrListener("UnexpectedPacket")).put,
     continue |-> FALSE]

OnOther(alive) ==
    LET sent == Send(alive, ErrListener("UnexpectedPacket"))
    IN [put |-> sent.put, continue |-> sent.ok]

OnRecvError_NoBreak(alive) ==
    [put |-> Send(alive, ErrListener("Broken")).put, continue |-> TRUE]

OnRecvError(alive) ==
    [put |-> Send(alive, ErrListener("Broken")).put, continue |-> FALSE]

LoopBody(received, alive) ==
    IF ~received.ok THEN OnRecvError(alive)
    ELSE IF received.kind = "Text" THEN OnText(received.string, alive)
    ELSE IF received.kind = "Close" THEN OnClose(alive)
    ELSE OnOther(alive)

ListenerStart ==
    /\ listener_pc = "new"
    /\ listener_pc' = "listening"
    /\ UNCHANGED <<rx_alive, message_body_channel, iterations,
                   hopper_vars, net_vars, launcher_vars>>

ListenerReceive(received) ==
    /\ listener_pc = "listening"
    /\ Len(iterations) < MaxReceived
    /\ LET r == LoopBody(received, rx_alive)
       IN /\ message_body_channel' = message_body_channel \o r.put
          /\ listener_pc' = IF r.continue THEN "listening" ELSE "stopped"
          /\ iterations' = Append(iterations,
                 [received |-> received, alive |-> rx_alive, put |-> r.put,
                  pc_after |-> IF r.continue THEN "listening" ELSE "stopped",
                  channel_after |-> message_body_channel \o r.put])
    /\ UNCHANGED <<rx_alive, hopper_vars, net_vars, launcher_vars>>

DropReceiver ==
    /\ rx_alive
    /\ rx_alive' = FALSE
    /\ UNCHANGED <<listener_pc, message_body_channel, iterations,
                   hopper_vars, net_vars, launcher_vars>>

ListenerNext ==
    \/ ListenerStart
    \/ \E received \in RecvResults : ListenerReceive(received)
    \/ DropReceiver

ListenerSpec == Init /\ [][ListenerNext]_vars

----------------------------------------------------------------------------
(* Properties of the client listener thread *)

Passes == 1..Len(iterations)

IsLastPass(i) == i = Len(iterations) /\ listener_pc = iterations[i].pc_after

BodyOf(received) ==
    CHOOSE body \in MessageBodies : received.string = Marshal(body)

ValidText(received) ==
    /\ received.ok /\ received.kind = "Text"
    /\ \E body \in MessageBodies : received.string = Marshal(body)

PassedThrough(i) ==
    /\ iterations[i].put = <<OkBody(BodyOf(iterations[i].received))>>
    /\ iterations[i].pc_after = "listening"
    /\ i = Len(iterations) => listener_pc = "listening"

\* C11 as stated: every Text message that unmarshals to a MessageBody is
\* put on the channel as Ok(body) with that body, and the thread goes on
\* listening afterwards.
C11_TextPassedThrough ==
    \A i \in Passes : ValidText(iterations[i].received) => PassedThrough(i)

\* C11 as amended: every Text message that unmarshals to a MessageBody is
\* put on the channel as Ok(body) with that body and the thread goes on
\* listening, as long as the receiving end of the channel still exists; once
\* it is gone nothing is put on the channel and the thread stops.
C11_TextPassedThroughWhileReceiverAlive ==
    \A i \in Passes :
        ValidText(iterations[i].received) =>
            IF iterations[i].alive
            THEN PassedThrough(i)
            ELSE /\ iterations[i].put = <<>>
                 /\ iterations[i].pc_after = "stopped"
                 /\ IsLastPass(i)

C11_Witness ==
    /\ Len(iterations) = 2
    /\ ValidText(iterations[1].received) /\ iterations[1].alive
    /\ ValidText(iterations[2].received) /\ iterations[2].alive
    /\ iterations[1].received # iterations[2].received
    /\ Len(message_body_channel) = 2
    /\ listener_pc = "listening"

Stopped(i) ==
    /\ iterations[i].pc_after = "stopped"
    /\ i = Len(iterations)
    /\ listener_pc = "stopped"
    /\ message_body_channel = iterations[i].channel_after

ReceivedClose(i) ==
    iterations[i].received.ok /\ iterations[i].received.kind = "Close"

\* C12 as stated: on a websocket Close message the thread puts Err(Closed) on
\* the channel and stops; no further message is received from the socket and
\* nothing further is put on the channel.
C12_CloseReportedAndStops ==
    \A i \in Passes :
        ReceivedClose(i) =>
            /\ iterations[i].put = <<ErrListener("Closed")>>
            /\ Stopped(i)

\* C12 as amended: on a websocket Close message the thread stops, receiving
\* nothing further from the socket and putting nothing further on the channel;
\* Err(Closed) is put on the channel exactly when the receiving end of the
\* channel still exists, otherwise nothing is put.
C12_CloseStopsAndReportsWhileReceiverAlive ==
    \A i \in Passes :
        ReceivedClose(i) =>
            /\ iterations[i].put =
                   IF iterations[i].alive THEN <<ErrListener("Closed")>>
                                          ELSE <<>>
            /\ Stopped(i)

C12_Witness ==
    /\ Len(iterations) = 2
    /\ ValidText(iterations[1].received)
    /\ ReceivedClose(2) /\ iterations[2].alive
    /\ message_body_channel =
           <<OkBody(BodyOf(iterations[1].received)), ErrListener("Closed")>>
    /\ listener_pc = "stopped"

\* C13 as stated: when receiving from the socket fails the thread puts
\* Err(Broken) on the channel and stops; it makes no further receive attempt
\* and puts nothing further on the channel.
C13_BrokenReportedAndStops ==
    \A i \in Passes :
        ~iterations[i].received.ok =>
            /\ iterations[i].put = <<ErrListener("Broken")>>
            /\ Stopped(i)

\* C13 as amended: when receiving from the socket fails the thread stops,
\* making no further receive attempt and putting nothing further on the
\* channel; Err(Broken) is put on the channel exactly when the receiving end
\* of the channel still exists, otherwise nothing is put.
C13_BrokenStopsAndReportsWhileReceiverAlive ==
    \A i \in Passes :
        ~iterations[i].received.ok =>
            /\ iterations[i].put =
                   IF iterations[i].alive THEN <<ErrListener("Broken")>>
                                          ELSE <<>>
            /\ Stopped(i)

C13_Witness ==
    /\ Len(iterations) = 2
    /\ ValidText(iterations[1].received)
    /\ ~iterations[2].received.ok /\ iterations[2].alive
    /\ message_body_channel =
           <<OkBody(BodyOf(iterations[1].received)), ErrListener("Broken")>>
    /\ listener_pc = "stopped"

Unexpected(received) ==
    /\ received.ok
    /\ \/ received.kind \notin {"Text", "Close"}
       \/ received.kind = "Text" /\ ~Unmarshal(received.string).ok

ReportedAndListening(i) ==
    /\ iterations[i].put = <<ErrListener("UnexpectedPacket")>>
    /\ iterations[i].pc_after = "listening"
    /\ i = Len(iterations) => listener_pc = "listening"

\* C14 as stated: on a message that is neither Text nor Close, or a Text that
\* does not unmarshal, the thread puts Err(UnexpectedPacket) on the channel
\* and keeps listening; a valid Text arriving next is delivered as Ok(body).
C14_UnexpectedPacketNotFatal ==
    \A i \in Passes :
        Unexpected(iterations[i].received) =>
            /\ ReportedAndListening(i)
            /\ (i < Len(iterations) /\ ValidText(iterations[i + 1].received))
                   => iterations[i + 1].put =
                          <<OkBody(BodyOf(iterations[i + 1].received))>>

\* C14 as amended: on a message that is neither Text nor Close, or a Text that
\* does not unmarshal, the thread puts Err(UnexpectedPacket) on the channel
\* and keeps listening, and a valid Text arriving next is delivered as
\* Ok(body), as long as the receiving end of the channel still exists; once it
\* is gone nothing is put on the channel and the thread stops.
C14_UnexpectedPacketNotFatalWhileReceiverAlive ==
    \A i \in Passes :
        Unexpected(iterations[i].received) =>
            IF iterations[i].alive
            THEN /\ ReportedAndListening(i)
                 /\ (/\ i < Len(iterations)
                     /\ ValidText(iterations[i + 1].received)
                     /\ iterations[i + 1].alive)
                        => iterations[i + 1].put =
                               <<OkBody(BodyOf(iterations[i + 1].received))>>
            ELSE /\ iterations[i].put = <<>>
                 /\ iterations[i].pc_after = "stopped"
                 /\ IsLastPass(i)

C14_Witness ==
    /\ Len(iterations) = 3
    /\ iterations[1].received.kind = "Binary"
    /\ iterations[2].received.kind = "Text"
    /\ Unexpected(iterations[2].received)
    /\ ValidText(iterations[3].received) /\ iterations[3].alive
    /\ message_body_channel =
           <<ErrListener("UnexpectedPacket"), ErrListener("UnexpectedPacket"),
             OkBody(BodyOf(iterations[3].received))>>
    /\ listener_pc = "listening"

----------------------------------------------------------------------------
(* The Windows launcher: node/src/daemon/launcher_windows.rs *)

\* The parameter names in use, in ascending String order.
NameOrder == <<"name", "ui-port", "wallet">>

Names == {NameOrder[i] : i \in DOMAIN NameOrder}

Rank(name) == CHOOSE i \in DOMAIN NameOrder : NameOrder[i] = name

Values == {"value", "5333"}

FreePorts == {5333, 5334}

Pids == {1234, 4321}

ParamMaps == UNION {[keys -> Values] : keys \in SUBSET Names}

ExecResults ==
    {[ok |-> TRUE, pid |-> pid, error |-> ""] : pid \in Pids}
        \cup {[ok |-> FALSE, pid |-> 0, error |-> "Booga!"]}

find_free_port(port) == port

Insert_KeepExisting(map, key, value) ==
    [k \in DOMAIN map \cup {key} |-> IF k \in DOMAIN map THEN map[k] ELSE value]

Insert(map, key, value) ==
    [k \in DOMAIN map \cup {key} |-> IF k = key THEN value ELSE map[k]]

\* HashMap::into_iter yields the entries in an order the map chooses.
IterationOrders(map) ==
    {order \in [1..Cardinality(DOMAIN map) -> DOMAIN map] :
        \A i, j \in DOMAIN order : i # j => order[i] # order[j]}

IntoIter(map, order) == [i \in DOMAIN order |-> <<order[i], map[order[i]]>>]

RECURSIVE InsertByKey(_, _)
InsertByKey(sorted, entry) ==
    IF sorted = <<>> THEN <<entry>>
    ELSE IF Rank(entry[1]) < Rank(Head(sorted)[1]) THEN <<entry>> \o sorted
    ELSE <<Head(sorted)>> \o InsertByKey(Tail(sorted), entry)

RECURSIVE SortedByKey(_)
SortedByKey(entries) ==
    IF entries = <<>> THEN <<>>
    ELSE InsertByKey(SortedByKey(SubSeq(entries, 1, Len(entries) - 1)),
                     entries[Len(entries)])

RECURSIVE FlatMap(_)
FlatMap(entries) ==
    IF entries = <<>> THEN <<>>
    ELSE <<"--" \o Head(entries)[1], Head(entries)[2]>> \o FlatMap(Tail(entries))

LaunchSuccess_Swapped(new_process_id, redirect_ui_port) ==
    [new_process_id |-> redirect_ui_port, redirect_ui_port |-> new_process_id]

LaunchSuccess(new_process_id, redirect_ui_port) ==
    [new_process_id |-> new_process_id, redirect_ui_port |-> redirect_ui_port]

LauncherLaunch(params, port, order, exec_result) ==
    LET redirect_ui_port == find_free_port(port)
        with_port == Insert(params, "ui-port", ToString(redirect_ui_port))
        params_vec == FlatMap(SortedByKey(IntoIter(with_port, order)))
    IN [called |-> TRUE,
        params |-> params,
        free_port |-> redirect_ui_port,
        exec_calls |-> <<params_vec>>,
        exec_result |-> exec_result,
        result |->
            IF exec_result.ok
            THEN [ok |-> TRUE, some |-> TRUE,
                  success |-> LaunchSuccess(exec_result.pid, redirect_ui_port),
                  error |-> ""]
            ELSE [ok |-> FALSE, some |-> FALSE, success |-> NoLaunchSuccess,
                  error |-> exec_result.error]]

Launch(params, port, exec_result) ==
    /\ \E order \in IterationOrders(Insert(params, "ui-port", "")) :
           launch' = LauncherLaunch(params, port, order, exec_result)
    /\ UNCHANGED <<hopper_vars, net_vars, listener_vars>>

LauncherNext ==
    \E params \in ParamMaps, port \in FreePorts, exec_result \in ExecResults :
        Launch(params, port, exec_result)

LauncherSpec == Init /\ [][LauncherNext]_vars

----------------------------------------------------------------------------
(* Properties of the launcher *)

ExpectedNames(params) ==
    SelectSeq(NameOrder, LAMBDA n : n \in DOMAIN params \cup {"ui-port"})

ExpectedValue(l, name) ==
    IF name = "ui-port" THEN ToString(l.free_port) ELSE l.params[name]

ArgumentVector == launch.exec_calls[1]

\* C15: launch calls the Execer exactly once; the argument vector lists the
\* parameters in ascending order of name, each as the adjacent pair
\* "--<name>", "<value>"; "--ui-port" occurs exactly once and its value is the
\* freshly chosen free port whatever value the caller gave for "ui-port".
C15_ExecCalledOnceWithSortedArgs ==
    launch.called =>
        /\ Len(launch.exec_calls) = 1
        /\ LET names == ExpectedNames(launch.params)
           IN /\ Len(ArgumentVector) = 2 * Len(names)
              /\ \A i \in DOMAIN names :
                    /\ ArgumentVector[2 * i - 1] = "--" \o names[i]
                    /\ ArgumentVector[2 * i] = ExpectedValue(launch, names[i])
        /\ Cardinality({i \in DOMAIN ArgumentVector :
                           ArgumentVector[i] = "--ui-port"}) = 1
        /\ \A i \in DOMAIN ArgumentVector :
               ArgumentVector[i] = "--ui-port" =>
                   ArgumentVector[i + 1] = ToString(launch.free_port)

C15_Witness ==
    /\ launch.called
    /\ DOMAIN launch.params = Names
    /\ launch.params["ui-port"] = "5333"
    /\ launch.free_port = 5334
    /\ ArgumentVector =
           <<"--name", "value", "--ui-port", "5334", "--wallet", "5333">>

UiPortPassed ==
    {ArgumentVector[i + 1] : i \in {j \in DOMAIN ArgumentVector :
                                       ArgumentVector[j] = "--ui-port"}}

\* C16: when the Execer returns Ok(pid), launch returns Ok(Some(LaunchSuccess))
\* whose new_process_id is that pid and whose redirect_ui_port is the port
\* passed to the Execer as the value of "--ui-port".
C16_SuccessCarriesPidAndPort ==
    (launch.called /\ launch.exec_result.ok) =>
        /\ launch.result.ok
        /\ launch.result.some
        /\ launch.result.success.new_process_id = launch.exec_result.pid
        /\ UiPortPassed = {ToString(launch.result.success.redirect_ui_port)}

C16_Witness ==
    /\ launch.called
    /\ launch.exec_result = [ok |-> TRUE, pid |-> 1234, error |-> ""]
    /\ "ui-port" \in DOMAIN launch.params
    /\ launch.params["ui-port"] = "5333"
    /\ launch.result.success = [new_process_id |-> 1234,
                                redirect_ui_port |-> 5334]
    /\ UiPortPassed = {"5334"}

====
